---- MODULE Spec2Model ----
(***************************************************************************)
(* Model of the WS2812b driver class of lib-ws2812b.h: the pixel buffer    *)
(* (setRGB), the HSV conversion (setHSV) and the bit-banged transmission   *)
(* (flush, sendRGB, sendGRB, sendBit) on bit PIN of PORTB of an AVR at     *)
(* 16 MHz (int and unsigned are 16 bits wide, byte is 8 bits wide).        *)
(***************************************************************************)
EXTENDS Integers, Sequences, FiniteSets

\* ------------------------------------------------------------------------
\* Template parameters, enumerations and machine words
\* ------------------------------------------------------------------------

\* Template parameter PIN (default of the template).
PIN == 1

\* Template parameter LEN: the number of LEDs of the modelled line.
LEN == 2

\* enum order_t
RGB == 0
GRB == 1

\* The values the ORDER template parameter takes (enum order_t).
Orders == {RGB, GRB}

\* delayMicroseconds(50) in flush.
ResetUs == 50

\* NOP2 and NOP5: the number of nop instructions of each macro.
NOP2 == 2
NOP5 == 5

RECURSIVE BitAnd(_, _)
\* a & b on non-negative integers.
BitAnd(a, b) ==
  IF a = 0 \/ b = 0 THEN 0
  ELSE (a % 2) * (b % 2) + 2 * BitAnd(a \div 2, b \div 2)

RECURSIVE BitOr(_, _)
\* a | b on non-negative integers.
BitOr(a, b) ==
  IF a = 0 THEN b
  ELSE IF b = 0 THEN a
  ELSE (IF (a % 2) + (b % 2) > 0 THEN 1 ELSE 0) + 2 * BitOr(a \div 2, b \div 2)

\* _BV(bit): 1 << bit.
BV(bit) == 2 ^ bit

\* The C++ operator ! applied to an integer: 1 for zero, 0 for anything else.
LogicalNot(x) == IF x = 0 THEN 1 ELSE 0

\* struct rgb_t
rgb_t(r, g, b) == [r |-> r, g |-> g, b |-> b]

\* ------------------------------------------------------------------------
\* Inputs of the model
\* ------------------------------------------------------------------------

Black == rgb_t(0, 0, 0)

\* The triplets the application writes with setRGB.
Colors == {Black, rgb_t(255, 0, 0), rgb_t(182, 200, 99)}

\* The positions the application passes: in range, just out of range, and
\* the largest byte.
Positions == (0..(LEN + 1)) \cup {255}

\* The (h, s, v) inputs of setHSV in the full model.
HSVInputs == {<<0, 0, 0>>, <<700, 255, 0>>, <<65535, 0, 129>>,
              <<0, 255, 255>>, <<300, 128, 200>>}

\* The values PORTB may hold when the application starts.
PortInit == {0, 255}

VARIABLES
  data,     \* rgb_t data[LEN]
  ORDER,    \* template parameter ORDER
  PORTB,    \* output register of port B
  I,        \* global interrupt enable flag of SREG
  pc,       \* position of the program: "idle" or a position inside flush
  fn,       \* the send function flush is in: "none", "sendRGB", "sendGRB"
  i,        \* loop variable of flush
  k,        \* index 0..2 of the byte burst inside sendRGB / sendGRB
  n,        \* index 0..7 of the sendBit call inside the burst
  t,        \* machine step inside sendBit
  elapsed,  \* microseconds spent in delayMicroseconds
  call,     \* the last call of the public interface and its arguments
  written,  \* the slots of data written by the last call, in order
  atCall,   \* I and PORTB when flush was last called
  wire,     \* the bits a receiver decoded from the pulses of this flush
  pulse,    \* the line level after each step of the current sendBit
  held,     \* bits emitted since interrupts were last enabled
  events,   \* the writes of the line and the cli / sei of this flush
  prev      \* the events of the flush just before this one, if any

vars == <<data, ORDER, PORTB, I, pc, fn, i, k, n, t, elapsed,
          call, written, atCall, wire, pulse, held, events, prev>>

hw == <<PORTB, I>>
pos_vars == <<pc, fn, i, k, n, t, elapsed>>
ghost == <<atCall, wire, pulse, held, events, prev>>

\* The records of a transmission are dropped when the application makes
\* another call.
ClearGhost ==
  /\ atCall' = [I |-> I, PORTB |-> PORTB]
  /\ wire' = <<>>
  /\ pulse' = <<>>
  /\ held' = held
  /\ events' = <<>>
  /\ prev' = <<>>

\* The level of the LED line: bit PIN of PORTB.
Line(port) == (port \div BV(PIN)) % 2

\* The name of a level in the record of events.
LevelName(level) == IF level = 1 THEN "high" ELSE "low"

Call(op, pos, rgb, h, s, v) ==
  [op |-> op, pos |-> pos, rgb |-> rgb, h |-> h, s |-> s, v |-> v]

\* A call without arguments.
Call0(op) == Call(op, 0, [r |-> 0, g |-> 0, b |-> 0], 0, 0, 0)

Init ==
  /\ data \in [0..(LEN - 1) -> Colors]
  /\ ORDER \in Orders
  /\ PORTB \in PortInit
  /\ I \in BOOLEAN
  /\ pc = "idle"
  /\ fn = "none"
  /\ i = 0 /\ k = 0 /\ n = 0 /\ t = 0
  /\ elapsed = 0
  /\ call = Call0("init")
  /\ written = <<>>
  /\ atCall = [I |-> I, PORTB |-> PORTB]
  /\ wire = <<>>
  /\ pulse = <<>>
  /\ held = 0
  /\ events = <<>>
  /\ prev = <<>>

\* ------------------------------------------------------------------------
\* setRGB
\* ------------------------------------------------------------------------

\* An off-by-one slip of the index: the triplet lands in the next slot.
Store_shift(d, pos, rgb) ==
  IF pos < LEN
  THEN [data |-> [d EXCEPT ![(pos + 1) % LEN] = rgb],
        slots |-> <<(pos + 1) % LEN>>]
  ELSE [data |-> d, slots |-> <<>>]

\* The index wrapped into the buffer instead of being tested.
Store_wrap(d, pos, rgb) ==
  [data |-> [d EXCEPT ![pos % LEN] = rgb], slots |-> <<pos % LEN>>]

\* if (pos < LEN) data[pos] = rgb;  the buffer after the statement and the
\* slots it wrote
Store(d, pos, rgb) ==
  IF pos < LEN
  THEN [data |-> [d EXCEPT ![pos] = rgb], slots |-> <<pos>>]
  ELSE [data |-> d, slots |-> <<>>]

\* void setRGB(const byte pos, const rgb_t& rgb)
setRGB(pos, rgb) ==
  /\ pc = "idle"
  /\ data' = Store(data, pos, rgb).data
  /\ written' = Store(data, pos, rgb).slots
  /\ call' = Call("setRGB", pos, rgb, 0, 0, 0)
  /\ ClearGhost
  /\ UNCHANGED <<ORDER, hw, pos_vars>>

\* void setRGB(const byte pos, const byte r, const byte g, const byte b)
\*   setRGB(pos, rgb_t({r, g, b}));
setRGB3(pos, r, g, b) ==
  /\ pc = "idle"
  /\ data' = Store(data, pos, rgb_t(r, g, b)).data
  /\ written' = Store(data, pos, rgb_t(r, g, b)).slots
  /\ call' = Call("setRGB3", pos, rgb_t(r, g, b), 0, 0, 0)
  /\ ClearGhost
  /\ UNCHANGED <<ORDER, hw, pos_vars>>

\* ------------------------------------------------------------------------
\* setHSV
\* ------------------------------------------------------------------------

\* Conversion to byte / uint8_t, to uint16_t (also unsigned) and to uint32_t.
U8(x) == x % 256
U16(x) == x % 65536
U32(x) == ((x \div 65536) % 65536) * 65536 + (x % 65536)

\* The sextant taken from the high byte of h, without the modulo and the
\* clamp.
Sextant_high(h) == U8(h \div 256)

\* The sextant clamped to 5 without the modulo.
Sextant_clamp(h) == IF (h \div 256) > 5 THEN 5 ELSE U8(h \div 256)

\* const uint8_t sextant = (((h % (6*256)) >> 8) > 5) ? 5 : (h % (6*256)) >> 8;
Sextant(h) ==
  IF ((h % (6 * 256)) \div 256) > 5 THEN 5 ELSE U8((h % (6 * 256)) \div 256)

\* The low byte of ww taken for the high one.
Floor_c_low(s, v) == U8(U16(v * (255 - s)))

\* The floor term without its two error corrections.
Floor_ww_plain(s, v) == U16(v * (255 - s))

\* The floor terms with 256 - s, the two's complement of s, for 255 - s.
Floor_terms_256(s, v) ==
  LET p0 == v * (256 - s)
      p1 == U16(p0) + 1
      p2 == U16(p1) + (U16(p1) \div 256)
  IN  <<p0, p1, p2>>

\* uint16_t ww = v * (255 - s); ww += 1; ww += ww >> 8;
\* The exact value of each right-hand side, before it is converted to the
\* uint16_t it is stored in.
Floor_terms(s, v) ==
  LET p0 == v * (255 - s)
      p1 == U16(p0) + 1
      p2 == U16(p1) + (U16(p1) \div 256)
  IN  <<p0, p1, p2>>

\* uint16_t ww = v * (255 - s); ww += 1; ww += ww >> 8;
Floor_ww(s, v) == U16(Floor_terms(s, v)[3])

\* const byte c = byte(ww >> 8);
Floor_c(s, v) == U8(Floor_ww(s, v) \div 256)

\* const uint8_t h_fraction = h & 0xff;
HFraction(h) == BitAnd(h, 255)

\* The products of the rising and of the falling slope exchanged.
SlopeProduct_swapped(sextant, h_fraction, s) ==
  IF sextant % 2 = 0 THEN U16(s * h_fraction) ELSE U16(s * (256 - h_fraction))

\* (uint16_t)(s * (256 - h_fraction))  resp.  (uint16_t)(s * h_fraction)
SlopeProduct(sextant, h_fraction, s) ==
  IF sextant % 2 = 0 THEN U16(s * (256 - h_fraction)) ELSE U16(s * h_fraction)

\* s * (256 - h_fraction)  resp.  s * h_fraction, before the cast.
SlopeProductExact(sextant, h_fraction, s) ==
  IF sextant % 2 = 0 THEN s * (256 - h_fraction) ELSE s * h_fraction

\* (255 << 8) - (uint16_t)(...), v * (uint32_t)(...), d += d >> 8 and
\* d += v: the exact value of each, before it is converted to the type it
\* is stored in.
Slope_terms(sextant, h_fraction, s, v) ==
  LET diff == (255 * 256) - U16(SlopeProductExact(sextant, h_fraction, s))
      d0 == v * U16(diff)
      d1 == U32(d0) + (U32(d0) \div 256)
      d2 == U32(d1) + v
  IN  <<diff, d0, d1, d2>>

\* The slope without its two error corrections.
Slope_d_plain(sextant, h_fraction, s, v) ==
  U32(v * U16((255 * 256) - SlopeProduct(sextant, h_fraction, s)))

\* uint32_t d = v * (uint32_t)((255 << 8) - (uint16_t)(...));
\* d += d >> 8; d += v;
\* The subtraction is done in unsigned, 16 bits wide.
Slope_d(sextant, h_fraction, s, v) ==
  LET d0 == U32(v * U16((255 * 256) - SlopeProduct(sextant, h_fraction, s)))
      d1 == U32(d0 + (d0 \div 256))
  IN  U32(d1 + v)

\* The two switch statements of setHSV, which have no default label: the
\* setRGB calls they make, as the sequence of their triplets.
HSVSextantCalls(h, s, v) ==
  LET sextant == Sextant(h)
      c == Floor_c(s, v)
      d == U8(Slope_d(sextant, HFraction(h), s, v) \div 65536)
  IN  IF BitAnd(sextant, 1) = 0
      THEN CASE sextant = 0 -> <<rgb_t(v, d, c)>>
             [] sextant = 2 -> <<rgb_t(c, v, d)>>
             [] sextant = 4 -> <<rgb_t(d, c, v)>>
             [] OTHER -> <<>>
      ELSE CASE sextant = 1 -> <<rgb_t(d, v, c)>>
             [] sextant = 3 -> <<rgb_t(c, d, v)>>
             [] sextant = 5 -> <<rgb_t(v, c, d)>>
             [] OTHER -> <<>>

\* The first shortcut writing the gray of the saturation instead of black.
HSVCalls_gray(h, s, v) ==
  IF v = 0 THEN <<rgb_t(s, s, s)>>
  ELSE IF s = 0 THEN <<rgb_t(v, v, v)>>
  ELSE HSVSextantCalls(h, s, v)

\* The second shortcut writing the saturation instead of the value.
HSVCalls_satgray(h, s, v) ==
  IF v = 0 THEN <<rgb_t(0, 0, 0)>>
  ELSE IF s = 0 THEN <<rgb_t(s, s, s)>>
  ELSE HSVSextantCalls(h, s, v)

\* The setRGB calls one setHSV(pos, h, s, v) makes, as the sequence of their
\* triplets: the two early returns, then the sextants.
HSVCalls(h, s, v) ==
  IF v = 0 THEN <<rgb_t(0, 0, 0)>>
  ELSE IF s = 0 THEN <<rgb_t(v, v, v)>>
  ELSE HSVSextantCalls(h, s, v)

RECURSIVE StoreAll(_, _, _)
\* The setRGB calls of one setHSV, made one after the other.
StoreAll(d, pos, calls) ==
  IF calls = <<>>
  THEN [data |-> d, slots |-> <<>>]
  ELSE LET first == Store(d, pos, Head(calls))
           rest == StoreAll(first.data, pos, Tail(calls))
       IN  [data |-> rest.data, slots |-> first.slots \o rest.slots]

\* void setHSV(const byte pos, const unsigned h, const byte s, const byte v)
setHSV(pos, h, s, v) ==
  /\ pc = "idle"
  /\ data' = StoreAll(data, pos, HSVCalls(h, s, v)).data
  /\ written' = StoreAll(data, pos, HSVCalls(h, s, v)).slots
  /\ call' = Call("setHSV", pos, rgb_t(0, 0, 0), h, s, v)
  /\ ClearGhost
  /\ UNCHANGED <<ORDER, hw, pos_vars>>

\* ------------------------------------------------------------------------
\* flush, sendRGB, sendGRB, sendBit
\* ------------------------------------------------------------------------

\* cli() left out: the flag stays set.
cli_I_on == TRUE

\* sei() left out: the flag stays clear.
sei_I_off == FALSE

\* cli() and sei(): the value they give the interrupt flag.
cli_I == FALSE
sei_I == TRUE

\* sendGRB with its second and third burst exchanged.
sendGRB_gbr(rgb) == <<rgb.g, rgb.b, rgb.r>>

\* The bytes of the three bursts of sendRGB(rgb) and of sendGRB(rgb).
sendRGB(rgb) == <<rgb.r, rgb.g, rgb.b>>
sendGRB(rgb) == <<rgb.g, rgb.r, rgb.b>>

\* The masks in the opposite order: least significant bit first.
Masks_lsb == <<1, 2, 4, 8, 16, 32, 64, 128>>

\* The masks of the eight sendBit calls of a burst: 0x80, 0x40, ... 0x01.
Masks == <<128, 64, 32, 16, 8, 4, 2, 1>>

\* The byte of the burst the program is in.
BurstByte ==
  IF fn = "sendRGB" THEN sendRGB(data[i])[k + 1] ELSE sendGRB(data[i])[k + 1]

\* The argument b of the sendBit call the program is in: mask & byte,
\* converted to bool.
BitArg == BitAnd(Masks[n + 1], BurstByte) # 0

\* The steps of sendBit, one per machine step: the three writes of PORTB
\* and the nop instructions between them.
tHigh == 0
tData == NOP2 + 1
tLow == NOP2 + NOP5 + 2

\* The bit a receiver reads from a pulse: the level of the line after the
\* short span.
Decode(p) == p[tData + 1]

\* flush without its PORTB = 0.
flush_keep ==
  /\ pc = "idle"
  /\ pc' = "delay"
  /\ elapsed' = 0
  /\ call' = Call0("flush")
  /\ written' = <<>>
  /\ atCall' = [I |-> I, PORTB |-> PORTB]
  /\ wire' = <<>>
  /\ pulse' = <<>>
  /\ events' = <<>>
  /\ prev' = IF call.op = "flush" THEN events ELSE <<>>
  /\ UNCHANGED <<data, ORDER, PORTB, I, fn, i, k, n, t, held>>

\* void flush() const: the call and PORTB = 0;
flush ==
  /\ pc = "idle"
  /\ PORTB' = 0
  /\ pc' = "delay"
  /\ elapsed' = 0
  /\ call' = Call0("flush")
  /\ written' = <<>>
  /\ atCall' = [I |-> I, PORTB |-> PORTB]
  /\ wire' = <<>>
  /\ pulse' = <<>>
  /\ events' = <<LevelName(Line(PORTB'))>>
  /\ prev' = IF call.op = "flush" THEN events ELSE <<>>
  /\ UNCHANGED <<data, ORDER, I, fn, i, k, n, t, held>>

\* delayMicroseconds(50); one microsecond per step, then i = 0
delayMicroseconds ==
  /\ pc = "delay"
  /\ elapsed' = elapsed + 1
  /\ pc' = IF elapsed + 1 >= ResetUs THEN "loop" ELSE "delay"
  /\ i' = 0
  /\ UNCHANGED <<data, ORDER, hw, fn, k, n, t, call, written, ghost>>

\* for (...; i < LEN; ++i): the test, the choice of the send function on
\* ORDER, and the return of flush
flushLoop ==
  /\ pc = "loop"
  /\ IF i < LEN
     THEN IF ORDER = RGB
          THEN pc' = "cli" /\ fn' = "sendRGB" /\ i' = i
          ELSE IF ORDER = GRB
               THEN pc' = "cli" /\ fn' = "sendGRB" /\ i' = i
               ELSE pc' = "loop" /\ fn' = "none" /\ i' = i + 1
     ELSE pc' = "idle" /\ fn' = "none" /\ i' = 0
  /\ k' = 0
  /\ UNCHANGED <<data, ORDER, hw, n, t, elapsed, call, written, ghost>>

\* cli(); before each burst of sendRGB / sendGRB
cli ==
  /\ pc = "cli"
  /\ I' = cli_I
  /\ pc' = "sendBit"
  /\ n' = 0
  /\ t' = tHigh
  /\ events' = Append(events, "cli")
  /\ UNCHANGED <<data, ORDER, PORTB, fn, i, k, elapsed, call, written,
                 atCall, wire, pulse, held, prev>>

\* sendBit: PORTB |= _BV(PIN);
sendBitHigh ==
  /\ pc = "sendBit"
  /\ t = tHigh
  /\ PORTB' = BitOr(PORTB, BV(PIN))
  /\ pulse' = <<Line(PORTB')>>
  /\ events' = Append(events, LevelName(Line(PORTB')))
  /\ t' = t + 1
  /\ UNCHANGED <<data, ORDER, I, pc, fn, i, k, n, elapsed, call, written,
                 atCall, wire, held, prev>>

\* sendBit: one nop of __asm__(NOP2) or of __asm__(NOP5)
sendBitNop ==
  /\ pc = "sendBit"
  /\ t \notin {tHigh, tData, tLow}
  /\ pulse' = Append(pulse, Line(PORTB))
  /\ events' = events
  /\ t' = t + 1
  /\ UNCHANGED <<data, ORDER, hw, pc, fn, i, k, n, elapsed, call, written,
                 atCall, wire, held, prev>>

\* The two branches of the conditional exchanged.
sendBitData_inverted ==
  /\ pc = "sendBit"
  /\ t = tData
  /\ PORTB' = BitAnd(PORTB, IF BitArg THEN LogicalNot(BV(PIN)) ELSE 255)
  /\ pulse' = Append(pulse, Line(PORTB'))
  /\ events' = Append(events, LevelName(Line(PORTB')))
  /\ t' = t + 1
  /\ UNCHANGED <<data, ORDER, I, pc, fn, i, k, n, elapsed, call, written,
                 atCall, wire, held, prev>>

\* sendBit: PORTB &= b ? 0x0FF : !_BV(PIN);
sendBitData ==
  /\ pc = "sendBit"
  /\ t = tData
  /\ PORTB' = BitAnd(PORTB, IF BitArg THEN 255 ELSE LogicalNot(BV(PIN)))
  /\ pulse' = Append(pulse, Line(PORTB'))
  /\ events' = Append(events, LevelName(Line(PORTB')))
  /\ t' = t + 1
  /\ UNCHANGED <<data, ORDER, I, pc, fn, i, k, n, elapsed, call, written,
                 atCall, wire, held, prev>>

\* sendBit: PORTB &= !_BV(PIN); and the return to the next statement of
\* sendRGB / sendGRB
sendBitLow ==
  /\ pc = "sendBit"
  /\ t = tLow
  /\ PORTB' = BitAnd(PORTB, LogicalNot(BV(PIN)))
  /\ pulse' = Append(pulse, Line(PORTB'))
  /\ events' = Append(events, LevelName(Line(PORTB')))
  /\ wire' = Append(wire, Decode(pulse))
  /\ held' = held + 1
  /\ t' = tHigh
  /\ IF n < 7 THEN n' = n + 1 /\ pc' = "sendBit"
              ELSE n' = 0 /\ pc' = "sei"
  /\ UNCHANGED <<data, ORDER, I, fn, i, k, elapsed, call, written, atCall,
                 prev>>

\* Interrupts enabled again after the third burst of a pixel only.
sei_pixel ==
  /\ pc = "sei"
  /\ I' = IF k < 2 THEN I ELSE sei_I
  /\ held' = IF I' THEN 0 ELSE held
  /\ events' = IF k < 2 THEN events ELSE Append(events, "sei")
  /\ IF k < 2 THEN pc' = "cli" /\ k' = k + 1 /\ i' = i /\ fn' = fn
              ELSE pc' = "loop" /\ k' = 0 /\ i' = i + 1 /\ fn' = "none"
  /\ UNCHANGED <<data, ORDER, PORTB, n, t, elapsed, call, written,
                 atCall, wire, pulse, prev>>

\* The pixel cleared once its third burst is out, as if read destructively.
sei_consume ==
  /\ pc = "sei"
  /\ I' = sei_I
  /\ held' = IF I' THEN 0 ELSE held
  /\ events' = Append(events, "sei")
  /\ data' = IF k < 2 THEN data ELSE [data EXCEPT ![i] = rgb_t(0, 0, 0)]
  /\ IF k < 2 THEN pc' = "cli" /\ k' = k + 1 /\ i' = i /\ fn' = fn
              ELSE pc' = "loop" /\ k' = 0 /\ i' = i + 1 /\ fn' = "none"
  /\ UNCHANGED <<ORDER, PORTB, n, t, elapsed, call, written,
                 atCall, wire, pulse, prev>>

\* sei(); after each burst, then the next burst or the return to flush
\* and its ++i
sei ==
  /\ pc = "sei"
  /\ I' = sei_I
  /\ held' = IF I' THEN 0 ELSE held
  /\ events' = Append(events, "sei")
  /\ IF k < 2 THEN pc' = "cli" /\ k' = k + 1 /\ i' = i /\ fn' = fn
              ELSE pc' = "loop" /\ k' = 0 /\ i' = i + 1 /\ fn' = "none"
  /\ UNCHANGED <<data, ORDER, PORTB, n, t, elapsed, call, written,
                 atCall, wire, pulse, prev>>

\* ------------------------------------------------------------------------
\* The driver under an application that calls its public interface
\* ------------------------------------------------------------------------

Next ==
  \/ \E pos \in Positions, rgb \in Colors : setRGB(pos, rgb)
  \/ \E pos \in Positions, rgb \in Colors : setRGB3(pos, rgb.r, rgb.g, rgb.b)
  \/ \E pos \in Positions, x \in HSVInputs : setHSV(pos, x[1], x[2], x[3])
  \/ flush
  \/ delayMicroseconds
  \/ flushLoop
  \/ cli
  \/ sendBitHigh
  \/ sendBitNop
  \/ sendBitData
  \/ sendBitLow
  \/ sei

Spec == Init /\ [][Next]_vars

\* The processor keeps executing: a step of flush that can be taken is taken.
FlushStep ==
  \/ delayMicroseconds \/ flushLoop \/ cli \/ sendBitHigh \/ sendBitNop
  \/ sendBitData \/ sendBitLow \/ sei

FairSpec == Spec /\ WF_vars(FlushStep)

\* ------------------------------------------------------------------------
\* Properties of the transmission
\* ------------------------------------------------------------------------

\* The wire order of the channels of a pixel under each order.
ChannelOrder(order) ==
  IF order = RGB THEN <<"r", "g", "b">> ELSE <<"g", "r", "b">>

\* Bit j (0 is the most significant) of a byte.
BitOf(byte, j) == (byte \div (2 ^ (7 - j))) % 2

\* The frame of a buffer: pixel by pixel, channel by channel, each byte most
\* significant bit first.
Frame(d, order) ==
  [x \in 1..(24 * LEN) |->
     BitOf(d[(x - 1) \div 24][ChannelOrder(order)[(((x - 1) % 24) \div 8) + 1]],
           (x - 1) % 8)]

InFlush == pc # "idle"
FlushDone == pc = "idle" /\ call.op = "flush"

\* C1: the bits flush puts on the line are, at every point of the
\* transmission, the first bits of the frame of the buffer (pixels 0..LEN-1
\* in order, channels in the configured order, most significant bit first),
\* and when flush returns they are the whole frame, 24 * LEN bits.
C1_FrameOnLine ==
  call.op = "flush" =>
    /\ Len(wire) <= 24 * LEN
    /\ wire = SubSeq(Frame(data, ORDER), 1, Len(wire))
    /\ (pc = "idle" => wire = Frame(data, ORDER))

C1_Witness ==
  /\ FlushDone
  /\ ORDER = GRB
  /\ data[0] = rgb_t(182, 200, 99)
  /\ data[LEN - 1] = rgb_t(255, 0, 0)
  /\ Len(wire) = 24 * LEN
  /\ SubSeq(wire, 1, 8) = <<1, 1, 0, 0, 1, 0, 0, 0>>

\* The number of steps of one sendBit and the pulse of each bit value: the
\* line is high for the short span, and through the additional span for a 1.
Period == NOP2 + NOP5 + 3
HighSteps(b) == IF b THEN NOP2 + NOP5 + 2 ELSE NOP2 + 1
Shape(b) == [j \in 1..Period |-> IF j <= HighSteps(b) THEN 1 ELSE 0]

MidBit == pc = "sendBit" /\ t # tHigh
BitDone == pulse # <<>> /\ ~MidBit

\* C2: every bit is one pulse: the line goes up, stays up for the short
\* span, is dropped at once for a 0 and kept up through the additional span
\* for a 1, is low when the bit ends, and the pulse has the same number of
\* steps for both bit values.
C2_OnePulsePerBit ==
  /\ MidBit => /\ Len(pulse) = t
               /\ pulse = SubSeq(Shape(BitArg), 1, t)
               /\ Line(PORTB) = pulse[t]
  /\ BitDone => /\ Len(pulse) = Period
                /\ Line(PORTB) = 0
                /\ pulse = Shape(wire[Len(wire)] = 1)
                /\ wire[Len(wire)] = Frame(data, ORDER)[Len(wire)]

C2_Witness ==
  /\ pc = "sendBit" /\ t = tHigh /\ n = 3
  /\ pulse = Shape(FALSE)
  /\ Len(wire) >= 2
  /\ wire[Len(wire) - 1] = 1
  /\ Line(PORTB) = 0

\* C3: during flush interrupts are disabled at every point of a burst of
\* eight bits, from its first rising edge to its last falling edge, and the
\* line is never high while interrupts are enabled.
C3_NoInterruptInBurst ==
  /\ pc \in {"sendBit", "sei"} => ~I
  /\ (InFlush /\ Line(PORTB) = 1) => ~I

C3_Witness ==
  /\ pc = "sendBit" /\ n = 7 /\ t = tLow
  /\ Line(PORTB) = 1
  /\ ~I
  /\ atCall.I

\* C4: during flush interrupts are enabled again between every two
\* consecutive bytes of the frame, also between two pixels: they are never
\* held disabled across more than 8 emitted bits.
C4_EnabledBetweenBytes ==
  /\ held <= 8
  /\ (pc \in {"cli", "loop"} /\ wire # <<>>) => (I /\ held = 0)

C4_Witness ==
  /\ pc = "cli" /\ i = 1 /\ k = 0
  /\ Len(wire) = 24
  /\ I
  /\ ~atCall.I

\* C5: flush always runs to completion, and when it has returned the line
\* is low and interrupts are enabled, whatever the interrupt flag was at
\* the call.
C5_FlushCompletes ==
  /\ [](FlushDone => (Line(PORTB) = 0 /\ I))
  /\ (InFlush ~> FlushDone)

C5_Witness ==
  /\ FlushDone
  /\ ~atCall.I
  /\ I
  /\ Line(PORTB) = 0
  /\ Len(wire) = 24 * LEN

\* C6: flush starts by driving the line low and keeps it low for the whole
\* reset delay: the line is low at every point of the delay, and it is high
\* during flush only after the delay has fully elapsed.
C6_ResetBeforeFrame ==
  InFlush =>
    /\ pc = "delay" => (Line(PORTB) = 0 /\ elapsed < ResetUs)
    /\ pc # "delay" => elapsed = ResetUs
    /\ Line(PORTB) = 1 => (elapsed = ResetUs /\ pc = "sendBit")

C6_Witness ==
  /\ pc = "sendBit" /\ i = 0 /\ k = 0 /\ n = 0 /\ t = tHigh + 1
  /\ Line(PORTB) = 1
  /\ Line(atCall.PORTB) = 1
  /\ elapsed = ResetUs

\* ------------------------------------------------------------------------
\* Properties of the pixel buffer
\* ------------------------------------------------------------------------

Slots == 0..(LEN - 1)
SetOps == {"setRGB", "setRGB3"}
WriteOps == {"setRGB", "setRGB3", "setHSV"}

\* C7: a setRGB of either overload at a position in range leaves exactly
\* its triplet in that slot, and a slot changes only in a call that writes
\* it: every other step, the steps of flush included, keeps its value.
C7_SetThenKeep ==
  [][ /\ (call'.op \in SetOps /\ call'.pos < LEN) =>
           (data'[call'.pos] = call'.rgb /\ written' = <<call'.pos>>)
      /\ \A p \in Slots :
           data'[p] # data[p] =>
             (call'.op \in WriteOps /\ call'.pos = p /\ pc = "idle")
    ]_vars

C7_Witness ==
  /\ call.op = "setRGB3"
  /\ call.pos = LEN - 1
  /\ call.rgb = rgb_t(182, 200, 99)
  /\ data[LEN - 1] = rgb_t(182, 200, 99)
  /\ data[0] = rgb_t(255, 0, 0)
  /\ written = <<LEN - 1>>

\* C8: setRGB and setHSV at a position outside the buffer change nothing:
\* every slot keeps its value, no slot and nothing outside the buffer is
\* written, and the call returns normally.
C8_OutOfRangeNoOp ==
  [][ (call'.op \in WriteOps /\ call'.pos >= LEN) =>
        /\ data' = data
        /\ DOMAIN data' = Slots
        /\ written' = <<>>
        /\ pc' = "idle"
        /\ UNCHANGED <<ORDER, PORTB, I>>
    ]_vars

C8_Witness ==
  /\ call.op = "setHSV"
  /\ call.pos = LEN
  /\ call.v # 0 /\ call.s # 0
  /\ written = <<>>
  /\ data[0] = rgb_t(255, 0, 0)

\* ------------------------------------------------------------------------
\* One call of setHSV on a fresh driver, over a wide set of inputs
\* ------------------------------------------------------------------------

\* Hues at and around the sextant boundaries, the period 6*256 and the
\* ends of the 16-bit unsigned range.
Hues == {0, 1, 128, 255, 256, 257, 511, 512, 700, 767, 768, 1023, 1024,
         1279, 1280, 1535, 1536, 1537, 1791, 1792, 3071, 3072, 32767,
         32768, 65279, 65280, 65535}

Sats == {0, 1, 2, 64, 127, 128, 200, 254, 255}
Vals == {0, 1, 2, 64, 127, 128, 200, 254, 255}

InitHSV == Init /\ ORDER = RGB /\ PORTB = 0 /\ I

NextHSV ==
  /\ call.op = "init"
  /\ \E pos \in Positions, h \in Hues, s \in Sats, v \in Vals :
       setHSV(pos, h, s, v)

SpecHSV == InitHSV /\ [][NextHSV]_vars

\* C9: one setHSV at a position in range writes the buffer exactly once,
\* in that slot, for every input: every other slot keeps its value and no
\* hue makes the call return without the write.
C9_ExactlyOneWrite ==
  [][ (call'.op = "setHSV" /\ call'.pos < LEN) =>
        /\ written' = <<call'.pos>>
        /\ \A q \in Slots \ {call'.pos} : data'[q] = data[q]
    ]_vars

C9_Witness ==
  /\ call.op = "setHSV"
  /\ call.pos = 0
  /\ call.h = 65535 /\ call.s = 255 /\ call.v = 255
  /\ written = <<0>>
  /\ data[0] # rgb_t(182, 200, 99)
  /\ data[LEN - 1] = rgb_t(182, 200, 99)

\* C10: with value 0 setHSV writes black, whatever the hue and the
\* saturation.
C10_ZeroValueIsBlack ==
  (call.op = "setHSV" /\ call.v = 0 /\ call.pos < LEN) =>
    data[call.pos] = rgb_t(0, 0, 0)

C10_Witness ==
  /\ call.op = "setHSV"
  /\ call.v = 0 /\ call.s = 255 /\ call.h = 1537
  /\ call.pos = LEN - 1
  /\ data[LEN - 1] = rgb_t(0, 0, 0)
  /\ data[0] = rgb_t(255, 0, 0)

\* C11: with saturation 0 setHSV writes the gray (v, v, v), whatever the
\* hue.
C11_ZeroSaturationIsGray ==
  (call.op = "setHSV" /\ call.s = 0 /\ call.pos < LEN) =>
    data[call.pos] = rgb_t(call.v, call.v, call.v)

C11_Witness ==
  /\ call.op = "setHSV"
  /\ call.s = 0 /\ call.v = 200 /\ call.h = 65535
  /\ call.pos = 0
  /\ data[0] = rgb_t(200, 200, 200)
  /\ data[LEN - 1] = rgb_t(255, 0, 0)

\* ------------------------------------------------------------------------
\* Two calls of setHSV whose hues are one period apart
\* ------------------------------------------------------------------------

\* setHSV(0, h, s, v) on a fresh driver.
FirstCall ==
  /\ call.op = "init"
  /\ \E h \in Hues, s \in Sats, v \in Vals : setHSV(0, h, s, v)

\* Then setHSV(LEN - 1, h + 6*256, s, v): the sum is converted to the
\* parameter  const unsigned h, 16 bits wide.
PeriodCall ==
  /\ call.op = "setHSV"
  /\ call.pos = 0
  /\ setHSV(LEN - 1, U16(call.h + (6 * 256)), call.s, call.v)

NextPeriod == FirstCall \/ PeriodCall

SpecPeriod == InitHSV /\ [][NextPeriod]_vars

SecondDone == call.op = "setHSV" /\ call.pos = LEN - 1 /\ LEN > 1

\* C12 as stated: setHSV gives the same triplet for h and for h + 1536,
\* for every hue the parameter can hold, the sum wrapping around.
C12_PeriodicWithWrap ==
  SecondDone => data[LEN - 1] = data[0]

\* C12: setHSV gives the same triplet for h and for h + 1536 for every
\* hue h with h + 1536 <= 65535, where the sum does not wrap around.
C12_PeriodicNoWrap ==
  (SecondDone /\ call.h >= 6 * 256) => data[LEN - 1] = data[0]

C12_Witness ==
  /\ SecondDone
  /\ call.h = 700 + (6 * 256)
  /\ call.s = 200 /\ call.v = 200
  /\ data[LEN - 1] = data[0]
  /\ data[0] \notin Colors

\* ------------------------------------------------------------------------
\* The fixed-point reference of the conversion, in unbounded integers
\* ------------------------------------------------------------------------

RefSextant(h) == (h % 1536) \div 256

\* The high byte of the corrected v * (255 - s).
RefC(s, v) ==
  LET w == (v * (255 - s)) + 1
  IN  ((w + (w \div 256)) \div 256) % 256

\* Bits 16..23 of the corrected v * ((255 << 8) - s * (256 - h_fraction))
\* for even sextants, of the corrected v * ((255 << 8) - s * h_fraction)
\* for odd ones.
RefD(h, s, v) ==
  LET f == h % 256
      e == IF RefSextant(h) % 2 = 0
           THEN v * (65280 - (s * (256 - f)))
           ELSE v * (65280 - (s * f))
  IN  ((e + (e \div 256) + v) \div 65536) % 256

\* The table of the six sextants.
RefTriplet(h, s, v) ==
  LET c == RefC(s, v)
      d == RefD(h, s, v)
  IN  <<rgb_t(v, d, c), rgb_t(d, v, c), rgb_t(c, v, d),
        rgb_t(c, d, v), rgb_t(d, c, v), rgb_t(v, c, d)>>[RefSextant(h) + 1]

\* C13: for v # 0 and s # 0 setHSV writes the triplet of the fixed-point
\* reference: floor c, slope d of the sextant's parity, and the table
\* (v,d,c), (d,v,c), (c,v,d), (c,d,v), (d,c,v), (v,c,d) for sextants 0..5.
C13_MatchesReference ==
  (call.op = "setHSV" /\ call.v # 0 /\ call.s # 0 /\ call.pos < LEN) =>
    data[call.pos] = RefTriplet(call.h, call.s, call.v)

C13_Witness ==
  /\ call.op = "setHSV"
  /\ call.h = 1279 /\ call.s = 200 /\ call.v = 200
  /\ call.pos = 0
  /\ data[0] = rgb_t(199, 43, 200)

\* a and b differ by at most 1.
Within1(a, b) == (a - b) \in {-1, 0, 1}

\* Every channel of x is within 1 of the same channel of y.
Near(x, y) == Within1(x.r, y.r) /\ Within1(x.g, y.g) /\ Within1(x.b, y.b)

\* C14: at hue 0 and saturation 255 setHSV writes red within rounding:
\* every channel is within 1 of (v, 0, 0), for every v.
C14_HueZeroIsRed ==
  (call.op = "setHSV" /\ call.h = 0 /\ call.s = 255 /\ call.pos < LEN) =>
    Near(data[call.pos], rgb_t(call.v, 0, 0))

C14_Witness ==
  /\ call.op = "setHSV"
  /\ call.h = 0 /\ call.s = 255 /\ call.v = 255
  /\ call.pos = LEN - 1
  /\ Near(data[LEN - 1], rgb_t(255, 0, 0))
  /\ data[0] = rgb_t(182, 200, 99)

\* ------------------------------------------------------------------------
\* Two calls of setHSV whose hues are one step apart
\* ------------------------------------------------------------------------

\* After FirstCall, setHSV(LEN - 1, h + 1, s, v).
StepCall ==
  /\ call.op = "setHSV"
  /\ call.pos = 0
  /\ setHSV(LEN - 1, U16(call.h + 1), call.s, call.v)

NextStep == FirstCall \/ StepCall

SpecStep == InitHSV /\ [][NextStep]_vars

\* C15: across the boundary of sextants 0 and 1 no channel jumps by more
\* than 1: the triplets setHSV writes for h = 255 and for h = 256 are
\* within 1 of each other in every channel, for every s and v.
C15_NoJumpAtSextantOne ==
  (SecondDone /\ call.h = 256) => Near(data[0], data[LEN - 1])

C15_Witness ==
  /\ SecondDone
  /\ call.h = 256 /\ call.s = 255 /\ call.v = 255
  /\ data[0] = rgb_t(255, 254, 0)
  /\ data[LEN - 1] = rgb_t(255, 255, 0)

\* ------------------------------------------------------------------------
\* The two channel orders
\* ------------------------------------------------------------------------

\* The byte a receiver assembles from the eight bits of w that start at
\* index first, the first bit being the most significant.
WireByte(w, first) ==
  (128 * w[first]) + (64 * w[first + 1]) + (32 * w[first + 2])
  + (16 * w[first + 3]) + (8 * w[first + 4]) + (4 * w[first + 5])
  + (2 * w[first + 6]) + w[first + 7]

\* The three bytes of pixel p on the wire.
PixelBytes(w, p) ==
  <<WireByte(w, (24 * p) + 1), WireByte(w, (24 * p) + 9),
    WireByte(w, (24 * p) + 17)>>

SwapFirstTwo(b) == <<b[2], b[1], b[3]>>

\* C16: for the same buffer the frame sent under GRB is the frame sent
\* under RGB with the first two bytes of every pixel exchanged: under RGB
\* a pixel goes out as the bytes of sendRGB, under GRB as those bytes with
\* the first two exchanged, blue is the third byte under both, and every
\* byte goes out most significant bit first under both.
C16_OrdersDifferBySwap ==
  FlushDone =>
    \A p \in 0..(LEN - 1) :
      /\ ORDER = RGB => PixelBytes(wire, p) = sendRGB(data[p])
      /\ ORDER = GRB => PixelBytes(wire, p) = SwapFirstTwo(sendRGB(data[p]))
      /\ PixelBytes(wire, p)[3] = data[p].b

C16_Witness ==
  /\ FlushDone
  /\ ORDER = GRB
  /\ data[0] = rgb_t(182, 200, 99)
  /\ PixelBytes(wire, 0) = <<200, 182, 99>>
  /\ PixelBytes(wire, LEN - 1)[3] = data[LEN - 1].b

\* ------------------------------------------------------------------------
\* Two transmissions in succession
\* ------------------------------------------------------------------------

\* The flush in progress or just finished was called right after another
\* flush, with no other call between them.
SecondFlush == call.op = "flush" /\ prev # <<>>

\* C17: a flush called right after another flush, with no write between
\* them, makes the same sequence of line writes and of cli / sei as the
\* first, event for event, and no step of flush changes the buffer.
C17_FlushTwiceSame ==
  [][ /\ call'.op = "flush" => data' = data
      /\ SecondFlush' =>
           /\ Len(events') <= Len(prev')
           /\ events' = SubSeq(prev', 1, Len(events'))
           /\ (pc' = "idle" => events' = prev')
    ]_vars

C17_Witness ==
  /\ SecondFlush
  /\ pc = "idle"
  /\ events = prev
  /\ Len(events) = 1 + (78 * LEN)
  /\ data[0] = rgb_t(182, 200, 99)
  /\ ORDER = RGB

\* ------------------------------------------------------------------------
\* The other pins of port B
\* ------------------------------------------------------------------------

\* The bits of the port register other than bit PIN.
OtherBits(port) == port - (Line(port) * BV(PIN))

\* C18: flush drives the configured pin alone: at every step of flush and
\* after it, every bit of PORTB other than bit PIN has the value it had
\* when flush was called.
C18_OnlyPinDriven ==
  call.op = "flush" => OtherBits(PORTB) = OtherBits(atCall.PORTB)

\* ------------------------------------------------------------------------
\* Range of the conversion
\* ------------------------------------------------------------------------

Max3(x) ==
  IF x.r >= x.g /\ x.r >= x.b THEN x.r
  ELSE IF x.g >= x.b THEN x.g ELSE x.b

\* C19: the largest channel of the triplet setHSV writes is v exactly: no
\* channel exceeds v and at least one equals v.
C19_LargestChannelIsValue ==
  (call.op = "setHSV" /\ call.pos < LEN) =>
    /\ data[call.pos].r <= call.v
    /\ data[call.pos].g <= call.v
    /\ data[call.pos].b <= call.v
    /\ call.v \in {data[call.pos].r, data[call.pos].g, data[call.pos].b}
    /\ Max3(data[call.pos]) = call.v

C19_Witness ==
  /\ call.op = "setHSV"
  /\ call.h = 700 /\ call.s = 128 /\ call.v = 64
  /\ call.pos = 0
  /\ data[0] = rgb_t(31, 64, 55)
  /\ Max3(data[0]) = 64

\* C20: no stored intermediate of the conversion exceeds its type, for
\* every s, v and h_fraction: the three values given to ww are below 2^16,
\* the product s * (256 - h_fraction) resp. s * h_fraction is below 2^16,
\* (255 << 8) minus it is not negative, and the corrected d is at most
\* 0xFF0000, so d >> 16 is at most 255.  The arithmetic does not read pos,
\* so every h_fraction is swept once per (h, s, v), at pos = 0.
C20_NoOverflow ==
  call.op = "setHSV" =>
    LET sextant == Sextant(call.h)
        hf == HFraction(call.h)
        ww == Floor_terms(call.s, call.v)
        dd == Slope_terms(sextant, hf, call.s, call.v)
    IN  /\ \A j \in 1..3 : ww[j] >= 0 /\ ww[j] < 65536
        /\ SlopeProductExact(sextant, hf, call.s) < 65536
        /\ call.pos = 0 => \A f \in 0..255 :
             /\ SlopeProductExact(sextant, f, call.s) < 65536
             /\ Slope_terms(sextant, f, call.s, call.v)[1] >= 0
             /\ Slope_terms(sextant, f, call.s, call.v)[4] <= 255 * 65536
        /\ dd[1] >= 0
        /\ dd[4] <= 255 * 65536
        /\ dd[4] \div 65536 <= 255
        /\ Slope_d(sextant, hf, call.s, call.v) = dd[4]
        /\ Floor_ww(call.s, call.v) = ww[3]

C20_Witness ==
  /\ call.op = "setHSV"
  /\ call.h = 256 /\ call.s = 255 /\ call.v = 255
  /\ call.pos = 0
  /\ written = <<0>>
  /\ Slope_terms(1, 0, 255, 255)[4] = 255 * 65536
  /\ SlopeProductExact(0, 0, 255) = 255 * 256

====
